---- MODULE Spec2Model ----
(***************************************************************************)
(* Model of the orders service in src/src/main.rs: five axum handlers over *)
(* one PostgreSQL table `orders` (id, name, coffee_name, size, total).     *)
(*                                                                         *)
(* Every handler issues exactly one SQL statement, which the database      *)
(* executes atomically.  The statement of update_order is built at run     *)
(* time; it is modelled as the token sequence the code concatenates, and   *)
(* the database is modelled as interpreting that text with the bound       *)
(* parameters.  The database is assumed reachable (no driver error).       *)
(*                                                                         *)
(* Spec      the handlers run one after the other on a growing table.      *)
(* SpecConc  two update_order requests in flight at once on a fixed table; *)
(*           each is split into building the statement and executing it.   *)
(***************************************************************************)
EXTENDS Integers, Sequences, FiniteSets, TLC

VARIABLES
    store,      \* the rows of table orders
    nextId,     \* the next value of the sequence behind orders.id
    last,       \* outcome of the handler that ran last (Spec)
    created,    \* history: the rows as inserted, of the orders no UPDATE or DELETE matched since
    tasks,      \* SpecConc: the update_order requests in flight
    log         \* SpecConc: the statements the database executed, in commit order

vars == <<store, nextId, last, created, tasks, log>>

----------------------------------------------------------------------------
(* Bounds and input domains *)

\* at most MaxOrders orders are ever inserted; identifiers range over 1..MaxOrders
MaxOrders == 2

Ids == 1..MaxOrders

Names == {"A", "B"}
CoffeeNames == {"Latte", "Mocha"}
Sizes == {"M", "L"}
Totals == {450, 300}

\* the two concurrent requests of SpecConc
Tasks == {1, 2}

----------------------------------------------------------------------------
(* Data types *)

\* Option<T>: None is the empty sequence, Some(v) is <<v>>
None == <<>>
Some(v) == <<v>>
is_some(o) == o # None
unwrap(o) == o[1]
Option(S) == {None} \cup {Some(v) : v \in S}

\* the mutable columns, in the order update_order tests them
Fields == <<"name", "coffee_name", "size", "total">>

\* struct Orders: one row of the table
Orders == [id : Ids, name : Names, coffee_name : CoffeeNames, size : Sizes, total : Totals]

\* struct CreateOrdersReq: all four fields required; a small set of bodies
BodyA == [name |-> "A", coffee_name |-> "Latte", size |-> "M", total |-> 450]
BodyB == [name |-> "B", coffee_name |-> "Mocha", size |-> "L", total |-> 300]
CreateOrdersReq == {BodyA, BodyB}

\* body with only the fields of `present` kept
Sparse(body, present) ==
    [name |-> IF "name" \in present THEN Some(body.name) ELSE None,
     coffee_name |-> IF "coffee_name" \in present THEN Some(body.coffee_name) ELSE None,
     size |-> IF "size" \in present THEN Some(body.size) ELSE None,
     total |-> IF "total" \in present THEN Some(body.total) ELSE None]

\* struct UpdateOrdersReq: every field optional; all 16 present/absent patterns,
\* the present fields carrying the values of either body above
UpdateOrdersReq ==
    {Sparse(body, present) :
        body \in CreateOrdersReq, present \in SUBSET {"name", "coffee_name", "size", "total"}}

----------------------------------------------------------------------------
(* update_order: building the statement text and the parameter list *)

\* format!("${i}")
Placeholder(i) == "$" \o ToString(i)

\* `if order.f.is_some() { q.push_str(", f = ${i}"); i = i + 1 }` on the pair (q, i)
PushField(st, present, col) ==
    IF present
    THEN [q |-> st.q \o <<",", col, "=", Placeholder(st.i)>>, i |-> st.i + 1]
    ELSE st

\* the text q of the statement, as a sequence of tokens
BuildQuery_swapcols(order) ==
    LET s0 == [q |-> <<"UPDATE", "orders", "SET", "id", "=", "$1">>, i |-> 2]
        s1 == PushField(s0, is_some(order.name), "coffee_name")
        s2 == PushField(s1, is_some(order.coffee_name), "name")
        s3 == PushField(s2, is_some(order.size), "size")
        s4 == PushField(s3, is_some(order.total), "total")
    IN  s4.q \o <<"WHERE", "id", "=", "$1">>
BuildQuery_interp(order) ==
    LET s0 == [q |-> <<"UPDATE", "orders", "SET", "id", "=", "$1">>, i |-> 2]
        s1 == IF is_some(order.name)
              THEN [q |-> s0.q \o <<",", "name", "=", "'" \o unwrap(order.name) \o "'">>,
                    i |-> s0.i + 1]
              ELSE s0
        s2 == PushField(s1, is_some(order.coffee_name), "coffee_name")
        s3 == PushField(s2, is_some(order.size), "size")
        s4 == PushField(s3, is_some(order.total), "total")
    IN  s4.q \o <<"WHERE", "id", "=", "$1">>
BuildQuery(order) ==
    LET s0 == [q |-> <<"UPDATE", "orders", "SET", "id", "=", "$1">>, i |-> 2]
        s1 == PushField(s0, is_some(order.name), "name")
        s2 == PushField(s1, is_some(order.coffee_name), "coffee_name")
        s3 == PushField(s2, is_some(order.size), "size")
        s4 == PushField(s3, is_some(order.total), "total")
    IN  s4.q \o <<"WHERE", "id", "=", "$1">>

\* `if order.f.is_some() { s = s.bind(order.f) }`
Bind(s, o) == IF is_some(o) THEN Append(s, unwrap(o)) ELSE s

\* the arguments bound to the statement, in binding order
BindValues_swapped(id, order) ==
    Bind(Bind(Bind(Bind(<<id>>, order.coffee_name), order.name), order.size), order.total)
BindValues(id, order) ==
    Bind(Bind(Bind(Bind(<<id>>, order.name), order.coffee_name), order.size), order.total)

----------------------------------------------------------------------------
(* The database: what it does with each statement *)

\* the largest parameter number a statement of update_order can carry:
\* $1 for the id and one for each field
MaxParams == 1 + Len(Fields)

\* the database reading a placeholder token back as a parameter number
Placeholders == [k \in 1..MaxParams |-> Placeholder(k)]
ParamIndex(tok) ==
    IF \E k \in 1..MaxParams : tok = Placeholders[k]
    THEN CHOOSE k \in 1..MaxParams : tok = Placeholders[k]
    ELSE 0

WherePos(q) == CHOOSE p \in 1..Len(q) : q[p] = "WHERE"

\* the SET list of UPDATE orders SET c1 = $a, c2 = $b ... WHERE ...
Assignments(q) ==
    LET w == WherePos(q)
    IN  [k \in 1..((w - 3) \div 4) |-> [col |-> q[4 * k], ph |-> ParamIndex(q[4 * k + 2])]]

\* the condition `col = $k` after WHERE
Condition(q) ==
    LET w == WherePos(q)
    IN  [col |-> q[w + 1], ph |-> ParamIndex(q[w + 3])]

\* one row after the SET list: every assigned column takes its parameter's value
ApplySet_partial(row, asg, binds) ==
    [c \in DOMAIN row |->
        IF \E k \in 1..2 : k <= Len(asg) /\ asg[k].col = c
        THEN binds[asg[CHOOSE k \in 1..2 : k <= Len(asg) /\ asg[k].col = c].ph]
        ELSE row[c]]
ApplySet(row, asg, binds) ==
    [c \in DOMAIN row |->
        IF \E k \in 1..Len(asg) : asg[k].col = c
        THEN binds[asg[CHOOSE k \in 1..Len(asg) : asg[k].col = c].ph]
        ELSE row[c]]

\* s.execute(&pg_pool) of an UPDATE statement: new table and rows_affected
ExecUpdate_all(tbl, q, binds) ==
    LET asg == Assignments(q)
    IN  [store |-> {ApplySet(r, asg, binds) : r \in tbl}, rows |-> Cardinality(tbl)]
ExecUpdate(tbl, q, binds) ==
    LET c == Condition(q)
        v == binds[c.ph]
        asg == Assignments(q)
        hit == {r \in tbl : r[c.col] = v}
    IN  [store |-> (tbl \ hit) \cup {ApplySet(r, asg, binds) : r \in hit},
         rows |-> Cardinality(hit)]

\* the value the column default of orders.id draws from its sequence
nextval_const(seq) == 1
nextval(seq) == seq

\* INSERT INTO orders (name, coffee_name, size, total) VALUES ($1, $2, $3, $4) RETURNING id
ExecInsert(tbl, seq, order) ==
    LET id == nextval(seq)
    IN  [store |-> tbl \cup {[id |-> id, name |-> order.name,
                              coffee_name |-> order.coffee_name,
                              size |-> order.size, total |-> order.total]},
         id |-> id]

\* DELETE FROM orders WHERE id = $1
ExecDelete_upto(tbl, id) ==
    LET hit == {r \in tbl : r.id <= id}
    IN  [store |-> tbl \ hit, rows |-> Cardinality(hit)]
ExecDelete(tbl, id) ==
    LET hit == {r \in tbl : r.id = id}
    IN  [store |-> tbl \ hit, rows |-> Cardinality(hit)]

\* SELECT * FROM orders ORDER BY id
RECURSIVE ExecSelect_desc(_)
ExecSelect_desc(tbl) ==
    IF tbl = {} THEN <<>>
    ELSE LET m == CHOOSE r \in tbl : \A o \in tbl : r.id >= o.id
         IN  <<m>> \o ExecSelect_desc(tbl \ {m})
RECURSIVE ExecSelect(_)
ExecSelect(tbl) ==
    IF tbl = {} THEN <<>>
    ELSE LET m == CHOOSE r \in tbl : \A o \in tbl : r.id <= o.id
         IN  <<m>> \o ExecSelect(tbl \ {m})

----------------------------------------------------------------------------
(* Spec: the handlers, one request at a time *)

NoOutcome == [op |-> "none", id |-> 0, status |-> "NONE", rows |-> 0, listed |-> <<>>]

Outcome(op, id, status, rows, listed) ==
    [op |-> op, id |-> id, status |-> status, rows |-> rows, listed |-> listed]

\* a request of SpecConc that has not arrived yet
Idle ==
    [pc |-> "idle", id |-> 0, order |-> Sparse(BodyA, {}),
     q |-> <<>>, binds |-> <<>>, rows |-> 0, status |-> "NONE"]

Init ==
    /\ store = {}
    /\ nextId = 1
    /\ last = NoOutcome
    /\ created = {}
    /\ tasks = [t \in Tasks |-> Idle]
    /\ log = <<>>

\* GET /orders
get_orders ==
    /\ last' = Outcome("get_orders", 0, "OK", 0, ExecSelect(store))
    /\ UNCHANGED <<store, nextId, created, tasks, log>>

\* POST /orders
add_order(order) ==
    /\ nextId <= MaxOrders
    /\ LET r == ExecInsert(store, nextId, order)
       IN  /\ store' = r.store
           /\ last' = Outcome("add_order", r.id, "OK", 0, <<>>)
           /\ created' = created \cup {c \in r.store : c.id = r.id}
    /\ nextId' = nextId + 1
    /\ UNCHANGED <<tasks, log>>

\* PUT /orders/:id
update_order(id, order) ==
    /\ LET r == ExecUpdate(store, BuildQuery(order), BindValues(id, order))
       IN  /\ store' = r.store
           /\ last' = Outcome("update_order", id, "OK", r.rows, <<>>)
    /\ created' = {c \in created : c.id # id}
    /\ UNCHANGED <<nextId, tasks, log>>

\* DELETE /orders/:id
delete_order(id) ==
    /\ LET r == ExecDelete(store, id)
       IN  /\ store' = r.store
           /\ last' = Outcome("delete_order", id, "OK", r.rows, <<>>)
    /\ created' = {c \in created : c.id # id}
    /\ UNCHANGED <<nextId, tasks, log>>

\* GET /orders/:id: the body is todo!(), which panics
get_order(id) ==
    /\ last' = Outcome("get_order", id, "PANIC", 0, <<>>)
    /\ UNCHANGED <<store, nextId, created, tasks, log>>

Next ==
    \/ get_orders
    \/ \E order \in CreateOrdersReq : add_order(order)
    \/ \E id \in Ids, order \in UpdateOrdersReq : update_order(id, order)
    \/ \E id \in Ids : delete_order(id)
    \/ \E id \in Ids : get_order(id)

Spec == Init /\ [][Next]_vars

----------------------------------------------------------------------------
(* SpecConc: two update_order requests racing on a table of MaxOrders orders *)

\* the table after POST /orders with bodies body[1], ..., body[n]
RECURSIVE Seed(_, _)
Seed(n, body) ==
    IF n = 0 THEN {}
    ELSE ExecInsert(Seed(n - 1, body), n, body[n]).store

\* identifiers a request may name: those of the table and one that matches no row
PathIds == 1..(MaxOrders + 1)

InitConc ==
    /\ \E body \in [Ids -> CreateOrdersReq] : store = Seed(MaxOrders, body)
    /\ nextId = MaxOrders + 1
    /\ last = NoOutcome
    /\ created = store
    /\ tasks = [t \in Tasks |-> Idle]
    /\ log = <<>>

\* update_order up to its last bind: the statement text and its arguments are ready
update_build(t, id, order) ==
    /\ tasks[t].pc = "idle"
    /\ tasks' = [tasks EXCEPT ![t] =
                    [pc |-> "bound", id |-> id, order |-> order,
                     q |-> BuildQuery(order), binds |-> BindValues(id, order),
                     rows |-> 0, status |-> "NONE"]]
    /\ UNCHANGED <<store, nextId, last, created, log>>

\* s.execute(&pg_pool).await and the response: the database runs the statement
update_execute(t) ==
    /\ tasks[t].pc = "bound"
    /\ LET r == ExecUpdate(store, tasks[t].q, tasks[t].binds)
       IN  /\ store' = r.store
           /\ tasks' = [tasks EXCEPT ![t].pc = "done", ![t].rows = r.rows,
                                     ![t].status = "OK"]
    /\ log' = Append(log, [task |-> t, q |-> tasks[t].q])
    /\ UNCHANGED <<nextId, last, created>>

NextConc ==
    \/ \E t \in Tasks, id \in PathIds, order \in UpdateOrdersReq : update_build(t, id, order)
    \/ \E t \in Tasks : update_execute(t)

SpecConc == InitConc /\ [][NextConc]_vars

----------------------------------------------------------------------------
(* Properties *)

\* the names of the fields present in a request body, in the fixed field order
Present(order) == SelectSeq(Fields, LAMBDA f : is_some(order[f]))

\* row r with the present fields of a request body written over it
Patched(r, order) ==
    [c \in DOMAIN r |->
        IF c # "id" /\ is_some(order[c]) THEN unwrap(order[c]) ELSE r[c]]

\* every token a statement of update_order is meant to consist of
SqlTokens ==
    {"UPDATE", "orders", "SET", "WHERE", "=", ",", "id", "name", "coffee_name", "size", "total"}
        \cup {Placeholders[k] : k \in 1..MaxParams}

Built(t) == tasks[t].pc # "idle"
Done(t) == tasks[t].pc = "done"

\* C1: in every statement update_order builds, the SET list is `id = $1` followed by
\* the present fields in the order name, coffee_name, size, total with placeholders
\* $2, $3, ...; the arguments are the identifier followed by the present fields'
\* values in that order; so the number of distinct placeholders, the number of
\* arguments and 1 + (number of present fields) agree, and the argument a field's
\* placeholder selects is that field's new value.
C1_PlaceholdersMatchBinds ==
    \A t \in Tasks : Built(t) =>
        LET order == tasks[t].order
            q == tasks[t].q
            binds == tasks[t].binds
            asg == Assignments(q)
            present == Present(order)
            n == Len(present)
        IN  /\ Len(asg) = 1 + n
            /\ asg[1] = [col |-> "id", ph |-> 1]
            /\ Condition(q) = [col |-> "id", ph |-> 1]
            /\ \A k \in 1..n : asg[k + 1] = [col |-> present[k], ph |-> k + 1]
            /\ Len(binds) = 1 + n
            /\ Cardinality({q[p] : p \in 1..Len(q)} \cap {Placeholders[k] : k \in 1..MaxParams})
                   = Len(binds)
            /\ binds[1] = tasks[t].id
            /\ \A k \in 1..n : binds[asg[k + 1].ph] = unwrap(order[asg[k + 1].col])

\* C1 witness: one request with all four fields and one with exactly one field are built
C1_Witness ==
    /\ Built(1) /\ Len(tasks[1].binds) = 5 /\ Len(Assignments(tasks[1].q)) = 5
    /\ Built(2) /\ Len(tasks[2].binds) = 2 /\ is_some(tasks[2].order.size)

\* C2: an update whose body names no field issues no statement and reports zero rows.
C2_EmptyPatchIssuesNothing ==
    \A t \in Tasks : (Done(t) /\ Present(tasks[t].order) = <<>>) =>
        /\ tasks[t].rows = 0
        /\ \A k \in 1..Len(log) : log[k].task # t

\* C3: the statement of an update changes, in the row with the request's id, exactly
\* the fields present in the body, each to the body's value; absent fields, the id
\* and every other row stay as they were.
C3_UpdateFrame ==
    [][\A t \in Tasks : (tasks[t].pc = "bound" /\ tasks'[t].pc = "done") =>
            /\ tasks'[t].status = "OK"
            /\ store' = {IF r.id = tasks[t].id THEN Patched(r, tasks[t].order) ELSE r :
                            r \in store}]_vars

\* C3 witness: an update of two of the four fields of order 1 has run; order 2 is as inserted
C3_Witness ==
    /\ Done(1) /\ tasks[1].id = 1 /\ tasks[1].rows = 1
    /\ Present(tasks[1].order) = <<"coffee_name", "total">>
    /\ ~ Built(2)
    /\ \E r \in store, c \in created :
          /\ r.id = 1 /\ c.id = 1
          /\ r.coffee_name # c.coffee_name /\ r.total # c.total
          /\ r.name = c.name /\ r.size = c.size
    /\ \E r \in store : r.id = 2 /\ r \in created

\* C4: the id add_order returns is the id of the inserted row, and what get_orders
\* returns is strictly ascending by id and contains, with the values it was created
\* with, every order that no update or delete has matched since its creation.
C4_CreatedOrdersListed ==
    /\ last.op = "add_order" => \E c \in created : c.id = last.id /\ c \in store
    /\ last.op = "get_orders" =>
          /\ \A c \in created : \E k \in 1..Len(last.listed) : last.listed[k] = c
          /\ \A k \in 1..(Len(last.listed) - 1) : last.listed[k].id < last.listed[k + 1].id

\* C4 witness: a list of two orders, one still as created and one updated since
C4_Witness ==
    /\ last.op = "get_orders"
    /\ Len(last.listed) = 2
    /\ Cardinality(created) = 1

\* C4 as stated: an order keeps being listed with its created values by every step
\* that does not delete it.
C4_ListedUntilDeleted ==
    [][\A c \in created : (\E r \in store' : r.id = c.id) =>
            \E k \in 1..Len(ExecSelect(store')) : ExecSelect(store')[k] = c]_vars

\* C5: an update naming an id no row has reports zero rows, succeeds, and leaves the
\* table as it was.
C5_UpdateMissingId ==
    [][(last'.op = "update_order" /\ ~ \E r \in store : r.id = last'.id) =>
            /\ last'.rows = 0
            /\ last'.status = "OK"
            /\ store' = store]_vars

\* C5 witness: an update of a deleted order's id has run while another order exists
C5_Witness ==
    /\ last.op = "update_order" /\ last.rows = 0 /\ last.status = "OK"
    /\ last.id < nextId
    /\ store # {}

\* C6: a delete reports one row if the id is present and zero otherwise, and removes
\* that order only; a delete of the id the previous delete named reports zero rows,
\* succeeds and leaves the table as it was.
C6_DeleteTwice ==
    [][last'.op = "delete_order" =>
            /\ last'.status = "OK"
            /\ last'.rows = (IF \E r \in store : r.id = last'.id THEN 1 ELSE 0)
            /\ store' = {r \in store : r.id # last'.id}
            /\ (last.op = "delete_order" /\ last.id = last'.id) =>
                  (last'.rows = 0 /\ store' = store)]_vars

\* C6 witness: a delete of an id that was inserted and is gone reported zero rows,
\* with another order still in the table
C6_Witness ==
    /\ last.op = "delete_order" /\ last.rows = 0 /\ last.status = "OK"
    /\ last.id < nextId
    /\ store # {}

\* C7: get_order ends with the order of that id, as the table holds it, when there is
\* one, and with NotFound when there is none.
C7_GetReturnsOrder ==
    last.op = "get_order" =>
        IF \E r \in store : r.id = last.id
        THEN last.status = "OK" /\ \E r \in store : r.id = last.id /\ last.listed = <<r>>
        ELSE last.status = "NOT_FOUND"

\* C8: two update requests with the same present/absent pattern get the same statement
\* text, whatever their ids and values, and the text consists of SQL tokens only.
C8_TextDependsOnPatternOnly ==
    \A t1, t2 \in Tasks : (Built(t1) /\ Built(t2)) =>
        /\ \A p \in 1..Len(tasks[t1].q) : tasks[t1].q[p] \in SqlTokens
        /\ Present(tasks[t1].order) = Present(tasks[t2].order) => tasks[t1].q = tasks[t2].q

\* C8 witness: two requests with the same three fields, other values and other ids
C8_Witness ==
    /\ Built(1) /\ Built(2)
    /\ Present(tasks[1].order) = <<"name", "size", "total">>
    /\ Present(tasks[2].order) = <<"name", "size", "total">>
    /\ unwrap(tasks[1].order.name) # unwrap(tasks[2].order.name)
    /\ tasks[1].id # tasks[2].id
    /\ tasks[1].q = tasks[2].q

UniqueIds == \A r1, r2 \in store : r1.id = r2.id => r1 = r2

\* C9: no two rows ever have the same id; the row add_order inserts gets the value of
\* the sequence as its id; an update leaves the ids of the table as they were.
C9_UniqueImmutableIds ==
    [][/\ UniqueIds'
       /\ last'.op = "add_order" =>
             /\ last'.id = nextId
             /\ \E r \in store' : r.id = nextId /\ store' = store \cup {r}
       /\ last'.op = "update_order" =>
             /\ Cardinality(store') = Cardinality(store)
             /\ \A r \in store : \E r2 \in store' : r2.id = r.id]_vars

\* C9 witness: an update has matched one of two orders
C9_Witness ==
    /\ last.op = "update_order" /\ last.rows = 1
    /\ Cardinality(store) = 2
    /\ Cardinality({r.id : r \in store}) = 2
    /\ created = {}

\* C10: once two updates of the same order have both run, each of its fields holds the
\* value of the update that ran last among those naming the field, and its value
\* before both when neither names it; every other row is as it was.
C10_LastCommitWins ==
    \A id \in Ids :
        (Done(1) /\ Done(2) /\ tasks[1].id = id /\ tasks[2].id = id) =>
            LET first == tasks[log[1].task].order
                second == tasks[log[2].task].order
                was == CHOOSE c \in created : c.id = id
                now == [c \in DOMAIN was |->
                          IF c = "id" THEN id
                          ELSE IF is_some(second[c]) THEN unwrap(second[c])
                          ELSE IF is_some(first[c]) THEN unwrap(first[c])
                          ELSE was[c]]
            IN  store = {IF r.id = id THEN now ELSE r : r \in created}

\* C10 witness: both updates of order 1 have run; name is in both bodies with different
\* values, size in the first to run only, total in neither
C10_Witness ==
    /\ Done(1) /\ Done(2) /\ tasks[1].id = 1 /\ tasks[2].id = 1
    /\ log[1].task = 2
    /\ Present(tasks[2].order) = <<"name", "size">>
    /\ Present(tasks[1].order) = <<"name", "coffee_name">>
    /\ unwrap(tasks[1].order.name) # unwrap(tasks[2].order.name)
    /\ \E r \in store : r.id = 1 /\ r.name = unwrap(tasks[1].order.name)

====
